---- MODULE Spec2Model ----
(***************************************************************************)
(* Model of iot.c, a multi-threaded I/O benchmark: the worker loop, the    *)
(* two position generators, the shared counters tioc and running, the      *)
(* mutex rnmtx, the condition variable rncond, the alarm handler and the   *)
(* reporting loop of main.                                                 *)
(*                                                                         *)
(* Threads interleave at every access to shared memory.  The two           *)
(* read-modify-write statements on shared unsigned variables, ++tioc and   *)
(* --running, are a load followed by a store (reg is the loaded value).    *)
(***************************************************************************)
EXTENDS Integers, Sequences, FiniteSets, TLC

\* ----------------------------------------------------------------- bounds
MaxThreads == 2      \* largest total number of worker threads (-r -R -w -W)
MaxBc == 2           \* largest block count (-n, or size / bs)
MaxBm == 2           \* largest per-thread operation limit (-i)
MaxRand == 1         \* lrand48() results are drawn from 0..MaxRand
MaxDraws == 3        \* draws per worker in the two-run comparison

\* ------------------------------------------------------ program constants
MFrnd == 1
MFwrt == 2
LinRd == 0
RndRd == 1
LinWr == 2
RndWr == 3
Batch == 1000        \* incc signals rncond when tioc is a multiple of it
SIGALRM == 14        \* the signal number sig() stores into term

Threads == 0 .. (MaxThreads - 1)
Classes == 0 .. 3
NoBlock == 0 - 1     \* no I/O call in flight
\* A worker with no limit (bm = 0) is followed for this many operations.
OpsCap == MaxBm + 1

VARIABLES
  nt,       \* nt[4]: threads per class
  ntt,      \* total number of threads
  bc,       \* block count
  bm,       \* blocks to do per thread, 0 = no limit
  tm,       \* time limit, 0 = none
  mpc,      \* position of the main thread
  scur,     \* s - states: index of the next state to hand to a thread
  c,        \* c[4] of the last pst(stdout)
  mholds,   \* main has rnmtx locked: pthread_cond_wait has returned to it
  running,  \* number of workers that have not passed decnr
  tioc,     \* total i/o count
  term,     \* stop flag
  rnmtx,    \* lock word of the mutex: 0 free, 1 locked
  status,   \* "running", or how the process ended: "0", "1", "SIGFPE"
  pc,       \* position of each worker
  opi,      \* states[i].opi
  ioc,      \* states[i].ioc
  bn,       \* states[i].bn
  blk,      \* block number of the I/O call in flight, or NoBlock
  reg,      \* value loaded by the worker's pending ++tioc or --running
  exitwhy,  \* which exit of the loop the worker took
  ncalls,   \* number of posfn calls the worker has made
  ndec,     \* number of times the worker has stored --running
  xsubi,    \* two-run comparison: generator state of each run
  drawn,    \* two-run comparison: positions each worker got, per run
  xop,      \* offset computation: "none", or the call issued, "pread" / "pwrite"
  xb,       \* offset computation: the block number b, four 8-bit limbs
  xbs,      \* offset computation: the block size bs, four 8-bit limbs
  xoff      \* offset computation: the off_t passed, eight limbs, <<>> if trapped

cfgvars == <<nt, ntt, bc, bm, tm>>
mainvars == <<mpc, scur, c, mholds>>
sharedvars == <<running, tioc, term, rnmtx, status>>
workervars == <<pc, opi, ioc, bn, blk, reg, exitwhy, ncalls, ndec>>
offvars == <<xop, xb, xbs, xoff>>
runvars == <<xsubi, drawn, offvars>>
vars == <<cfgvars, mainvars, sharedvars, workervars, runvars>>

\* ---------------------------------------------------------------- helpers
RECURSIVE SumTo(_, _)
SumTo(f, k) == IF k < 0 THEN 0 ELSE f[k] + SumTo(f, k - 1)

\* The class j of the k-th thread created by the nested loops of main.
ClassOfIndex(n, k) ==
  CHOOSE j \in Classes : k < SumTo(n, j) /\ (j = 0 \/ k >= SumTo(n, j - 1))

IsRnd(k) == (k % 2) = MFrnd
IsWrt(k) == (k \div 2) = 1

Live == status = "running"

\* ------------------------------------------------------------ lrand48(3)
\* The 48-bit state X is six 8-bit limbs, least significant first.
\* X' = (0x5DEECE66D * X + 0xB) mod 2^48; lrand48 returns X' >> 17.
Mult48 == <<109, 230, 236, 222, 5, 0>>
\* srand48(0xfeda432): X = (seed << 16) | 0x330E
Seed48 == <<14, 51, 50, 164, 237, 15>>

RECURSIVE Column(_, _, _)
Column(x, k, i) ==
  IF i > k THEN 0 ELSE x[i] * Mult48[k - i + 1] + Column(x, k, i + 1)

RECURSIVE Iterate48(_, _, _)
Iterate48(x, k, carry) ==
  IF k > 6 THEN <<>>
  ELSE LET s == Column(x, k, 1) + carry
       IN <<s % 256>> \o Iterate48(x, k + 1, s \div 256)

\* The carry into the lowest limb is the addend 0xB.
drand48_iterate(x) == Iterate48(x, 1, 11)

lrand48(x) ==
  LET y == drand48_iterate(x)
  IN (y[3] \div 2) + y[4] * 128 + y[5] * 32768 + y[6] * 8388608

\* ------------------------------------------------- (off_t)b * bs
\* An unsigned is four 8-bit limbs, an off_t eight, least significant first.
U32(hi, lo) == <<lo % 256, lo \div 256, hi % 256, hi \div 256>>

\* Conversion of an unsigned to the 64-bit off_t: zero extension.
Ext64(x) == x \o <<0, 0, 0, 0>>

RECURSIVE MulColumn(_, _, _, _)
MulColumn(x, y, k, i) ==
  IF i > k THEN 0 ELSE x[i] * y[k - i + 1] + MulColumn(x, y, k, i + 1)

\* The product of two n-limb integers in an n-limb multiplier: the limbs
\* from k up, the bits above limb n are dropped.
RECURSIVE MulLimbs(_, _, _, _, _)
MulLimbs(x, y, n, k, carry) ==
  IF k > n THEN <<>>
  ELSE LET s == MulColumn(x, y, k, 1) + carry
       IN <<s % 256>> \o MulLimbs(x, y, n, k + 1, s \div 256)

\* Mutant of Offset: b * bs formed in unsigned, then converted.
Offset_mut(b, s) == Ext64(MulLimbs(b, s, 4, 1, 0))

\* (off_t)b * bs: both operands converted to off_t, 64-bit multiplication.
Offset(b, s) == MulLimbs(Ext64(b), Ext64(s), 8, 1, 0)

\* The sign bit of an off_t.
Negative(x) == x[8] >= 128

\* Block numbers b < bc <= 2^32 - 1 and block sizes, up to the largest
\* unsigned, taken at the edges of 8, 16, 31 and 32 bits.
BlockSamples ==
  {U32(0, 0), U32(0, 1), U32(0, 2), U32(0, 255), U32(0, 65535), U32(1, 0),
   U32(1, 1), U32(32767, 65535), U32(32768, 0), U32(65535, 65534)}

SizeSamples ==
  {U32(0, 1), U32(0, 512), U32(0, 8192), U32(0, 65535), U32(1, 0),
   U32(16, 0), U32(32767, 65535), U32(32768, 0), U32(32768, 1),
   U32(65535, 65534), U32(65535, 65535)}

\* ---------------------------------------------------- position generators
\* randpos: n % bc, n the value lrand48() returned.
randpos(n) == n % bc

\* Mutant of linpos: the wrap test is > instead of >=.
linpos_mut(b) ==
  LET b0 == IF b > bc THEN 0 ELSE b
  IN [ret |-> b0, bn |-> b0 + 1]

\* linpos on a cursor b: the block returned and the cursor left behind.
linpos(b) ==
  LET b0 == IF b >= bc THEN 0 ELSE b
  IN [ret |-> b0, bn |-> b0 + 1]

\* ------------------------------------------------------------------- pst
\* The accumulation loop of pst over states[0 .. ntt-1].
RECURSIVE pstLoop(_, _)
pstLoop(i, acc) ==
  IF i >= ntt THEN acc
  ELSE pstLoop(i + 1, [acc EXCEPT ![opi[i]] = @ + ioc[i]])

\* Mutant of pst: the loop starts at states[1].
pst_mut == pstLoop(1, [k \in Classes |-> 0])

pst == pstLoop(0, [k \in Classes |-> 0])

\* ---------------------------------------------------------------- rncond
\* pthread_cond_signal / pthread_cond_broadcast: main is the only waiter.
Wake(m) == IF m = "wait" THEN "woken" ELSE m

\* ------------------------------------------------------------------ Init
NtChoices ==
  {n \in [Classes -> 0 .. MaxThreads] : SumTo(n, 3) <= MaxThreads}

\* The state when getopt has parsed the command line.
Init ==
  /\ nt \in NtChoices
  /\ ntt = 0
  /\ bc \in 0 .. MaxBc
  /\ bm \in 0 .. MaxBm
  /\ tm \in {0, 1}
  /\ mpc = "setup"
  /\ scur = 0
  /\ c = [k \in Classes |-> 0]
  /\ mholds = FALSE
  /\ xop = "none" /\ xb = U32(0, 0) /\ xbs = U32(0, 0) /\ xoff = <<>>
  /\ running = 0
  /\ tioc = 0
  /\ term = 0
  /\ rnmtx = 0
  /\ status = "running"
  /\ pc = [w \in Threads |-> "idle"]
  /\ opi = [w \in Threads |-> 0]
  /\ ioc = [w \in Threads |-> 0]
  /\ bn = [w \in Threads |-> 0]
  /\ blk = [w \in Threads |-> NoBlock]
  /\ reg = [w \in Threads |-> 0]
  /\ exitwhy = [w \in Threads |-> "none"]
  /\ ncalls = [w \in Threads |-> 0]
  /\ ndec = [w \in Threads |-> 0]
  /\ xsubi = [r \in 1 .. 2 |-> Seed48]
  /\ drawn = [r \in 1 .. 2 |-> [w \in Threads |-> <<>>]]

\* ------------------------------------------------------------------ main
\* main fails to open the target: edie.
m_openfail ==
  /\ Live /\ mpc = "setup"
  /\ status' = "1"
  /\ UNCHANGED <<cfgvars, mainvars, running, tioc, term, rnmtx, workervars, runvars>>

\* ntt, the default of one linear reader, the block count (given, or the
\* size of the target in blocks), the alarm, running = ntt.
m_setup ==
  /\ Live /\ mpc = "setup"
  /\ LET n == SumTo(nt, 3)
     IN /\ ntt' = IF n = 0 THEN 1 ELSE n
        /\ nt' = IF n = 0 THEN [nt EXCEPT ![LinRd] = 1] ELSE nt
  /\ bc' \in IF bc = 0 THEN 0 .. MaxBc ELSE {bc}
  /\ running' = ntt'
  /\ mpc' = "create"
  /\ UNCHANGED <<bm, tm, scur, c, mholds, tioc, term, rnmtx, status, workervars, runvars>>

\* One pthread_create of the nested loops; the loop test follows the last.
m_create ==
  /\ Live /\ mpc = "create"
  /\ opi' = [opi EXCEPT ![scur] = ClassOfIndex(nt, scur)]
  /\ pc' = [pc EXCEPT ![scur] = "open"]
  /\ scur' = scur + 1
  /\ mpc' = IF scur + 1 >= ntt THEN "test" ELSE "create"
  /\ UNCHANGED <<cfgvars, c, mholds, sharedvars, ioc, bn, blk, reg, exitwhy, ncalls, ndec, runvars>>

\* while(running): the test.  running is read without a lock of main's own.
m_test ==
  /\ Live /\ mpc = "test"
  /\ mpc' = IF running # 0 THEN "enter" ELSE "final"
  /\ UNCHANGED <<cfgvars, scur, c, mholds, sharedvars, workervars, runvars>>

\* pthread_cond_wait unlocks rnmtx and blocks on rncond, in one step.  main
\* never locks rnmtx itself, so the first call unlocks a mutex main does not
\* own: a default mutex has its lock word reset whoever holds it.
m_wait ==
  /\ Live /\ mpc = "enter"
  /\ rnmtx' = 0
  /\ mholds' = FALSE
  /\ mpc' = "wait"
  /\ UNCHANGED <<cfgvars, scur, c, running, tioc, term, status, workervars, runvars>>

\* A wake-up of pthread_cond_wait that no signal caused.
m_spurious ==
  /\ Live /\ mpc = "wait"
  /\ mpc' = "woken"
  /\ UNCHANGED <<cfgvars, scur, c, mholds, sharedvars, workervars, runvars>>

\* pthread_cond_wait returns with rnmtx locked; putc and pst(stderr) print
\* nothing that is kept.
m_relock ==
  /\ Live /\ mpc = "woken" /\ rnmtx = 0
  /\ rnmtx' = 1
  /\ mholds' = TRUE
  /\ mpc' = "test"
  /\ UNCHANGED <<cfgvars, scur, c, running, tioc, term, status, workervars, runvars>>

\* pst(stdout) and return 0.
m_final ==
  /\ Live /\ mpc = "final"
  /\ c' = pst
  /\ mpc' = "ret"
  /\ status' = "0"
  /\ UNCHANGED <<cfgvars, scur, mholds, running, tioc, term, rnmtx, workervars, runvars>>

\* The alarm handler, once alarm(tm) is armed.
sig_mut(s) ==
  /\ Live /\ tm # 0 /\ mpc # "setup" /\ term = 0
  /\ term' = s
  /\ mpc' = Wake(mpc)
  /\ UNCHANGED <<cfgvars, scur, c, mholds, running, tioc, rnmtx, status, workervars, runvars>>

sig(s) ==
  /\ Live /\ tm # 0 /\ mpc # "setup" /\ term = 0
  /\ term' = s
  /\ UNCHANGED <<cfgvars, mainvars, running, tioc, rnmtx, status, workervars, runvars>>

\* ---------------------------------------------------------------- worker
\* Mutant of TermSet: the loop does not look at term.
TermSet_mut == FALSE

TermSet == term # 0

\* Mutant of LimitReached: the limit test is > instead of >=.
LimitReached_mut(w) == bm # 0 /\ ioc[w] > bm

LimitReached_nobm(w) == ioc[w] >= bm

LimitReached(w) == bm # 0 /\ ioc[w] >= bm

w_open_mut(w, ok) ==
  /\ Live /\ pc[w] = "open"
  /\ IF ok
       THEN pc' = [pc EXCEPT ![w] = "check"] /\ exitwhy' = exitwhy
       ELSE pc' = [pc EXCEPT ![w] = "edie"] /\ exitwhy' = [exitwhy EXCEPT ![w] = "open"]
  /\ UNCHANGED <<cfgvars, mainvars, sharedvars, opi, ioc, bn, blk, reg, ncalls, ndec, runvars>>

w_open(w, ok) ==
  /\ Live /\ pc[w] = "open"
  /\ IF ok
       THEN pc' = [pc EXCEPT ![w] = "check"] /\ exitwhy' = exitwhy
       ELSE pc' = [pc EXCEPT ![w] = "lock"] /\ exitwhy' = [exitwhy EXCEPT ![w] = "open"]
  /\ UNCHANGED <<cfgvars, mainvars, sharedvars, opi, ioc, bn, blk, reg, ncalls, ndec, runvars>>

\* if (term) break;
w_term(w) ==
  /\ Live /\ pc[w] = "check" /\ TermSet
  /\ pc' = [pc EXCEPT ![w] = "lock"]
  /\ exitwhy' = [exitwhy EXCEPT ![w] = "term"]
  /\ UNCHANGED <<cfgvars, mainvars, sharedvars, opi, ioc, bn, blk, reg, ncalls, ndec, runvars>>

\* term is 0 and posfn is linpos: the I/O call is entered with its block.
w_linpos(w) ==
  /\ Live /\ pc[w] = "check" /\ ~TermSet /\ ~IsRnd(opi[w])
  /\ ioc[w] < OpsCap
  /\ blk' = [blk EXCEPT ![w] = linpos(bn[w]).ret]
  /\ bn' = [bn EXCEPT ![w] = linpos(bn[w]).bn]
  /\ ncalls' = [ncalls EXCEPT ![w] = @ + 1]
  /\ pc' = [pc EXCEPT ![w] = "io"]
  /\ UNCHANGED <<cfgvars, mainvars, sharedvars, opi, ioc, reg, exitwhy, ndec, runvars>>

\* term is 0 and posfn is randpos, lrand48 returning n.  The workers share
\* one generator and call it without a lock, so n is any value here; the
\* generator itself is lrand48 above, stepped by r_draw.
w_randpos(w, n) ==
  /\ Live /\ pc[w] = "check" /\ ~TermSet /\ IsRnd(opi[w])
  /\ ioc[w] < OpsCap
  /\ bc # 0
  /\ blk' = [blk EXCEPT ![w] = randpos(n)]
  /\ ncalls' = [ncalls EXCEPT ![w] = @ + 1]
  /\ pc' = [pc EXCEPT ![w] = "io"]
  /\ UNCHANGED <<cfgvars, mainvars, sharedvars, opi, ioc, bn, reg, exitwhy, ndec, runvars>>

\* randpos with bc = 0 divides by zero: the process is killed by SIGFPE, or
\* the division does not trap and any value comes back.
w_randpos_zero(w, n) ==
  /\ Live /\ pc[w] = "check" /\ ~TermSet /\ IsRnd(opi[w])
  /\ ioc[w] < OpsCap
  /\ bc = 0
  /\ \/ /\ status' = "SIGFPE"
        /\ UNCHANGED <<pc, blk, ncalls>>
     \/ /\ status' = status
        /\ blk' = [blk EXCEPT ![w] = n]
        /\ ncalls' = [ncalls EXCEPT ![w] = @ + 1]
        /\ pc' = [pc EXCEPT ![w] = "io"]
  /\ UNCHANGED <<cfgvars, mainvars, running, tioc, term, rnmtx, opi, ioc, bn, reg, exitwhy, ndec, runvars>>

\* Mutant of w_io: a failed call also raises the stop flag.
w_io_mut(w, r) ==
  /\ Live /\ pc[w] = "io"
  /\ blk' = [blk EXCEPT ![w] = NoBlock]
  /\ IF r = "fail"
       THEN /\ pc' = [pc EXCEPT ![w] = "lock"]
            /\ exitwhy' = [exitwhy EXCEPT ![w] = "fail"]
            /\ term' = 1
            /\ UNCHANGED <<ioc, reg>>
       ELSE /\ ioc' = [ioc EXCEPT ![w] = @ + 1]
            /\ reg' = [reg EXCEPT ![w] = tioc]
            /\ pc' = [pc EXCEPT ![w] = "incc"]
            /\ exitwhy' = exitwhy
            /\ term' = term
  /\ UNCHANGED <<cfgvars, mainvars, running, tioc, rnmtx, status, opi, bn, ncalls, ndec, runvars>>

\* Mutant of w_io: ++s->ioc before the test of the return value.
w_io_countall(w, r) ==
  /\ Live /\ pc[w] = "io"
  /\ blk' = [blk EXCEPT ![w] = NoBlock]
  /\ ioc' = [ioc EXCEPT ![w] = @ + 1]
  /\ IF r = "fail"
       THEN /\ pc' = [pc EXCEPT ![w] = "lock"]
            /\ exitwhy' = [exitwhy EXCEPT ![w] = "fail"]
            /\ UNCHANGED reg
       ELSE /\ reg' = [reg EXCEPT ![w] = tioc]
            /\ pc' = [pc EXCEPT ![w] = "incc"]
            /\ exitwhy' = exitwhy
  /\ UNCHANGED <<cfgvars, mainvars, sharedvars, opi, bn, ncalls, ndec, runvars>>

\* The pread/pwrite returns r: "fail" is -1, "short" is 0 .. bs-1 bytes,
\* "full" is bs bytes.  Only a negative value breaks; otherwise ++s->ioc and
\* incc loads tioc.
w_io(w, r) ==
  /\ Live /\ pc[w] = "io"
  /\ blk' = [blk EXCEPT ![w] = NoBlock]
  /\ IF r = "fail"
       THEN /\ pc' = [pc EXCEPT ![w] = "lock"]
            /\ exitwhy' = [exitwhy EXCEPT ![w] = "fail"]
            /\ UNCHANGED <<ioc, reg>>
       ELSE /\ ioc' = [ioc EXCEPT ![w] = @ + 1]
            /\ reg' = [reg EXCEPT ![w] = tioc]
            /\ pc' = [pc EXCEPT ![w] = "incc"]
            /\ exitwhy' = exitwhy
  /\ UNCHANGED <<cfgvars, mainvars, sharedvars, opi, bn, ncalls, ndec, runvars>>

\* incc stores tioc, signals rncond on a multiple of Batch; then the limit.
w_incc(w) ==
  /\ Live /\ pc[w] = "incc"
  /\ tioc' = reg[w] + 1
  /\ mpc' = IF (reg[w] + 1) % Batch = 0 THEN Wake(mpc) ELSE mpc
  /\ reg' = [reg EXCEPT ![w] = 0]
  /\ IF LimitReached(w)
       THEN pc' = [pc EXCEPT ![w] = "lock"] /\ exitwhy' = [exitwhy EXCEPT ![w] = "limit"]
       ELSE pc' = [pc EXCEPT ![w] = "check"] /\ exitwhy' = exitwhy
  /\ UNCHANGED <<cfgvars, scur, c, mholds, running, term, rnmtx, status, opi, ioc, bn, blk, ncalls, ndec, runvars>>

\* decnr: pthread_mutex_lock, and the load of --running.
w_lock(w) ==
  /\ Live /\ pc[w] = "lock" /\ rnmtx = 0
  /\ rnmtx' = 1
  /\ reg' = [reg EXCEPT ![w] = running]
  /\ pc' = [pc EXCEPT ![w] = "dec"]
  /\ UNCHANGED <<cfgvars, mainvars, running, tioc, term, status, opi, ioc, bn, blk, exitwhy, ncalls, ndec, runvars>>

\* decnr: the store of --running, and pthread_mutex_unlock.
w_dec(w) ==
  /\ Live /\ pc[w] = "dec"
  /\ running' = reg[w] - 1
  /\ rnmtx' = 0
  /\ reg' = [reg EXCEPT ![w] = 0]
  /\ ndec' = [ndec EXCEPT ![w] = @ + 1]
  /\ pc' = [pc EXCEPT ![w] = "bcast"]
  /\ UNCHANGED <<cfgvars, mainvars, tioc, term, status, opi, ioc, bn, blk, exitwhy, ncalls, runvars>>

\* decnr: pthread_cond_broadcast; then edie after a failed open, else return.
w_bcast(w) ==
  /\ Live /\ pc[w] = "bcast"
  /\ mpc' = Wake(mpc)
  /\ pc' = [pc EXCEPT ![w] = IF exitwhy[w] = "open" THEN "edie" ELSE "done"]
  /\ UNCHANGED <<cfgvars, scur, c, mholds, sharedvars, opi, ioc, bn, blk, reg, exitwhy, ncalls, ndec, runvars>>

\* edie: exit(1).
w_edie(w) ==
  /\ Live /\ pc[w] = "edie"
  /\ status' = "1"
  /\ UNCHANGED <<cfgvars, mainvars, running, tioc, term, rnmtx, workervars, runvars>>

MainStep == m_openfail \/ m_setup \/ m_create \/ m_test \/ m_wait \/ m_relock \/ m_final

WorkerStep(w) ==
  \/ \E ok \in BOOLEAN : w_open(w, ok)
  \/ w_term(w)
  \/ w_linpos(w)
  \/ \E n \in 0 .. MaxRand : w_randpos(w, n)
  \/ \E n \in 0 .. MaxRand : w_randpos_zero(w, n)
  \/ \E r \in {"full", "short", "fail"} : w_io(w, r)
  \/ w_incc(w)
  \/ w_lock(w)
  \/ w_dec(w)
  \/ w_bcast(w)
  \/ w_edie(w)

Next ==
  \/ m_openfail
  \/ m_setup
  \/ m_create
  \/ m_test
  \/ m_wait
  \/ m_spurious
  \/ m_relock
  \/ m_final
  \/ sig(SIGALRM)
  \/ \E w \in Threads, ok \in BOOLEAN : w_open(w, ok)
  \/ \E w \in Threads : w_term(w)
  \/ \E w \in Threads : w_linpos(w)
  \/ \E w \in Threads, n \in 0 .. MaxRand : w_randpos(w, n)
  \/ \E w \in Threads, n \in 0 .. MaxRand : w_randpos_zero(w, n)
  \/ \E w \in Threads, r \in {"full", "short", "fail"} : w_io(w, r)
  \/ \E w \in Threads : w_incc(w)
  \/ \E w \in Threads : w_lock(w)
  \/ \E w \in Threads : w_dec(w)
  \/ \E w \in Threads : w_bcast(w)
  \/ \E w \in Threads : w_edie(w)

Spec == Init /\ [][Next]_vars

\* ------------------------------------------------- two runs, side by side
\* Two runs of the same command line, each with its own generator seeded by
\* srand48(0xfeda432).  A step is one randpos call of a random-class worker
\* of one run; lrand48 is taken as atomic, the best case for repeatability.
r_draw(r, w) ==
  /\ bc # 0
  /\ w < SumTo(nt, 3) /\ IsRnd(ClassOfIndex(nt, w))
  /\ Len(drawn[r][w]) < MaxDraws
  /\ xsubi' = [xsubi EXCEPT ![r] = drand48_iterate(@)]
  /\ drawn' = [drawn EXCEPT ![r][w] = Append(@, randpos(lrand48(xsubi[r])))]
  /\ UNCHANGED <<cfgvars, mainvars, sharedvars, workervars, offvars>>

NextRuns == \E r \in 1 .. 2, w \in Threads : r_draw(r, w)

SpecRuns == Init /\ [][NextRuns]_vars

\* --------------------------------------------- the offset of one I/O call
\* wwriter / wreader on block b with block size s: the offset argument.  A
\* product of 2^63 or more overflows the signed off_t, which is undefined:
\* the multiplication wraps, or a build with trapping arithmetic aborts.
w_offset(op, b, s) ==
  /\ xop' = op /\ xb' = b /\ xbs' = s
  /\ IF Negative(Offset(b, s))
       THEN xoff' \in {Offset(b, s), <<>>}
       ELSE xoff' = Offset(b, s)
  /\ UNCHANGED <<cfgvars, mainvars, sharedvars, workervars, xsubi, drawn>>

NextOffset ==
  \E op \in {"pread", "pwrite"}, b \in BlockSamples, s \in SizeSamples :
    w_offset(op, b, s)

\* The offset does not depend on the thread configuration: one is enough.
InitOffset ==
  Init /\ bc = MaxBc /\ bm = 0 /\ tm = 0 /\ nt = [k \in Classes |-> 0]

SpecOffset == InitOffset /\ [][NextOffset]_vars

\* The scheduler runs every thread that can run, an I/O call returns, and a
\* thread that keeps finding rnmtx free at times gets it.  A wake-up without
\* a signal and the alarm are not owed.
Fairness ==
  /\ WF_vars(MainStep)
  /\ SF_vars(m_relock)
  /\ \A w \in Threads : WF_vars(WorkerStep(w)) /\ SF_vars(w_lock(w))

\* The fair runs take the largest limit, the smallest and the largest block
\* count, and the two read classes: a write class differs from its read
\* class in the open flags and in the system call only.
InitFair ==
  /\ Init
  /\ bm = MaxBm
  /\ bc \in {0, MaxBc}
  /\ nt[LinWr] = 0 /\ nt[RndWr] = 0

FairSpec == InitFair /\ [][Next]_vars /\ Fairness

\* ----------------------------------------------------------------- claims
Created == {w \in Threads : w < ntt}
LeftLoop(w) == pc[w] \in {"lock", "dec", "bcast", "edie", "done"}
Decremented(w) == pc[w] \in {"bcast", "edie", "done"}
Ended == status # "running"

\* C1: once running is zero the main loop leaves its wait and makes the
\* final report (or the process has been ended by exit(1)).
C1_FinalReportReached ==
  (mpc # "setup" /\ running = 0) ~> (mpc = "ret" \/ Ended)

\* C2: with a limit bm > 0 no worker counts past bm, and a worker that left
\* its loop without a failed open, a failed I/O or the stop flag has
\* ioc = bm exactly.
C2_ExactlyN ==
  \A w \in Threads :
    bm > 0 =>
      /\ ioc[w] <= bm
      /\ (LeftLoop(w) /\ exitwhy[w] \notin {"open", "fail", "term"}) => ioc[w] = bm

C2_Witness ==
  \E w \in Threads : pc[w] = "done" /\ exitwhy[w] = "limit" /\ bm = MaxBm /\ ioc[w] = bm

\* C4: when a worker failed to open the target the process never ends with
\* exit status 0.
C4_OpenFailureExitsOne ==
  (Ended /\ \E w \in Threads : exitwhy[w] = "open") => status # "0"

\* C5: when main has left the wait loop every worker has stored its
\* decrement (so its ioc is final), and the totals the final pst computed are
\* the per-class sums of the workers' counters.
RECURSIVE SumOver(_)
SumOver(S) ==
  IF S = {} THEN 0 ELSE LET w == CHOOSE x \in S : TRUE IN ioc[w] + SumOver(S \ {w})

ClassSum(k) == SumOver({w \in Created : opi[w] = k})

C5_FinalTotals ==
  /\ mpc \in {"final", "ret"} => \A w \in Created : Decremented(w)
  /\ mpc = "ret" => \A k \in Classes : c[k] = ClassSum(k)

C5_Witness ==
  /\ mpc = "ret" /\ bm = MaxBm /\ ntt = 2
  /\ c = [k \in Classes |-> IF k \in {RndRd, RndWr} THEN bm ELSE 0]

\* C6: for bc >= 1 the k-th call of linpos by a worker (k = 0, 1, ...)
\* returns k mod bc.
C6_LinearCycle ==
  \A w \in Threads :
    (pc[w] = "io" /\ ~IsRnd(opi[w]) /\ bc >= 1) => blk[w] = (ncalls[w] - 1) % bc

C6_Witness ==
  \E w \in Threads :
    /\ pc[w] = "io" /\ ~IsRnd(opi[w]) /\ bc = MaxBc
    /\ ncalls[w] = bc + 1 /\ blk[w] = 0

\* C7: the block of every I/O call is in 0 .. bc-1.
C7_InRange ==
  \A w \in Threads : pc[w] = "io" => (0 <= blk[w] /\ blk[w] < bc)

\* C9: a short transfer is not counted and ends the worker's loop.
C9_ShortStops ==
  [][\A w \in Threads : w_io(w, "short") => (ioc'[w] = ioc[w] /\ pc'[w] = "lock")]_vars

\* C3: once term is set no worker that is before its stop-flag check starts
\* an I/O call or counts one (the call in flight is the only one left), and
\* every worker leaves its loop, decrements running and returns, unless the
\* process ends first.
C3_StopProtocol ==
  /\ [][\A w \in Threads :
          (term # 0 /\ pc[w] \in {"idle", "open", "check"})
            => (pc'[w] # "io" /\ ioc'[w] = ioc[w])]_vars
  /\ (term # 0) ~> (Ended \/ \A w \in Created : pc[w] = "done" /\ ndec[w] = 1)

C3_Witness ==
  /\ term # 0 /\ ~Ended /\ ntt = 2
  /\ \A w \in Created : pc[w] = "done" /\ exitwhy[w] = "term"
  /\ \E w \in Created : ioc[w] > 0
  /\ \E w \in Created : ioc[w] = 0

\* C8: in two runs of one command line every random-class worker gets the
\* same sequence of positions.
C8_SameSequence ==
  \A w \in Threads, k \in 1 .. MaxDraws :
    (k <= Len(drawn[1][w]) /\ k <= Len(drawn[2][w]))
      => drawn[1][w][k] = drawn[2][w][k]

\* C10: a failed I/O call is not counted, sends only its worker to decnr and
\* changes neither term nor any other worker; that worker never re-enters
\* its loop and decrements running once.
OthersSame(w) ==
  \A v \in Threads \ {w} :
    /\ pc'[v] = pc[v] /\ ioc'[v] = ioc[v] /\ exitwhy'[v] = exitwhy[v]
    /\ bn'[v] = bn[v] /\ blk'[v] = blk[v] /\ ndec'[v] = ndec[v]

C10_FailureIsLocal ==
  /\ [][\A w \in Threads :
          w_io(w, "fail")
            => /\ ioc'[w] = ioc[w] /\ pc'[w] = "lock"
               /\ term' = term /\ running' = running
               /\ OthersSame(w)]_vars
  /\ [][\A w \in Threads :
          exitwhy[w] = "fail"
            => /\ exitwhy'[w] = "fail" /\ ioc'[w] = ioc[w] /\ ncalls'[w] = ncalls[w]
               /\ pc'[w] \in {"lock", "dec", "bcast", "done"}
               /\ (pc'[w] # pc[w] => (term' = term /\ OthersSame(w)))]_vars
  /\ [](\A w \in Threads :
          exitwhy[w] = "fail" => ndec[w] = (IF Decremented(w) THEN 1 ELSE 0))

C10_Witness ==
  \E w, v \in Threads :
    /\ exitwhy[w] = "fail" /\ pc[w] = "done" /\ ndec[w] = 1
    /\ pc[v] = "io" /\ ioc[v] > ioc[w] /\ term = 0

\* C11: whenever no worker is between its ++s->ioc and the end of incc, the
\* shared total tioc equals the sum of all workers' ioc, so that no
\* interleaving of two incc calls loses an increment.
Quiescent == \A w \in Threads : pc[w] # "incc"

C11_TotalIsSum == Quiescent => tioc = SumOver(Threads)

\* C12: every step that reads or writes tioc or running, once threads exist,
\* is taken by a thread that has rnmtx locked; in particular main has it
\* locked when it tests running and when it calls pthread_cond_wait.
Holds(w) == pc[w] = "dec"

C12_AccessUnderMutex ==
  /\ [][(m_test \/ m_wait) => mholds]_vars
  /\ [][\A w \in Threads :
          ((\E r \in {"full", "short"} : w_io(w, r)) \/ w_incc(w) \/ w_dec(w))
            => Holds(w)]_vars

\* C13: running is set to the number of workers before any worker is created,
\* each worker's exit takes exactly one off it, it never increases and never
\* goes below zero, and once it is zero it stays zero.
NDecremented == Cardinality({w \in Threads : ndec[w] = 1})

C13_RunningCount ==
  /\ [](mpc # "setup" => (running >= 0 /\ running = ntt - NDecremented))
  /\ [](\A w \in Threads : pc[w] # "idle" => mpc # "setup")
  /\ [](\A w \in Threads : ndec[w] = (IF Decremented(w) THEN 1 ELSE 0))
  /\ [][running' <= running \/ mpc = "setup"]_vars
  /\ [][(running = 0 /\ mpc # "setup") => running' = 0]_vars

\* C14: a worker whose open failed runs decnr (one store of --running, then
\* the broadcast that wakes main's wait) before its edie ends the process,
\* and it makes no I/O call and no second decrement.
C14_OpenFailure ==
  /\ [][\A w \in Threads :
          w_edie(w) => (exitwhy[w] = "open" /\ ndec[w] = 1
                        /\ ioc[w] = 0 /\ ncalls[w] = 0)]_vars
  /\ [][\A w \in Threads :
          (exitwhy[w] = "open" /\ Decremented(w) /\ ~Decremented(w)')
            => FALSE]_vars
  /\ [][\A w \in Threads :
          (exitwhy[w] = "open" /\ pc[w] = "bcast" /\ pc'[w] # "bcast")
            => (pc'[w] = "edie" /\ (mpc = "wait" => mpc' = "woken"))]_vars
  /\ [][\A w \in Threads :
          exitwhy[w] = "open"
            => /\ exitwhy'[w] = "open" /\ ioc'[w] = 0 /\ ncalls'[w] = 0
               /\ pc'[w] \in {"lock", "dec", "bcast", "edie"}
               /\ ndec'[w] = (IF Decremented(w)' THEN 1 ELSE 0)]_vars

C14_Witness ==
  \E w \in Threads :
    /\ status = "1" /\ pc[w] = "edie" /\ exitwhy[w] = "open" /\ ndec[w] = 1
    /\ mpc = "woken" /\ running = ntt - 1

\* C15: with no time limit and no count limit, and as long as no open and no
\* I/O call has failed, term stays 0, no worker leaves its loop, running
\* stays at the number of workers and main never gets to the final report.
NoLimits == tm = 0 /\ bm = 0

NoFailure == \A w \in Threads : exitwhy[w] \notin {"open", "fail"}

C15_RunsForever ==
  (NoLimits /\ NoFailure /\ mpc # "setup")
    => /\ term = 0
       /\ \A w \in Threads : ~LeftLoop(w) /\ exitwhy[w] = "none"
       /\ running = ntt
       /\ mpc \notin {"final", "ret"} /\ status # "0"

C15_Witness ==
  /\ NoLimits /\ NoFailure /\ ntt = MaxThreads /\ running = ntt
  /\ \A w \in Threads : pc[w] = "check" /\ ioc[w] = OpsCap
  /\ mpc = "wait" /\ status = "running"

\* C16: the handler's step sets term to a non-zero value and changes nothing
\* else, and no step of the program sets term back to 0.
C16_HandlerOnlySetsTerm ==
  /\ [][(term = 0 /\ term' # 0)
          => UNCHANGED <<cfgvars, mainvars, running, tioc, rnmtx, status,
                         workervars>>]_vars
  /\ [][sig(SIGALRM) => term' # 0]_vars
  /\ [][term # 0 => term' = term]_vars

C16_Witness ==
  /\ term = SIGALRM /\ mpc = "wait" /\ running = ntt /\ ntt = MaxThreads
  /\ \E w \in Threads : pc[w] = "io"

\* The residue modulo p of the limb number x, from limb i up.
RECURSIVE Residue(_, _, _)
Residue(x, i, p) ==
  IF i > Len(x) THEN 0 ELSE (x[i] + 256 * Residue(x, i + 1, p)) % p

\* Pairwise coprime moduli whose product exceeds 2^64: two naturals below
\* 2^64 with the same residues are equal.
Moduli == {32749, 32719, 32717, 32713, 32707}

\* The limbs of x read as a natural number are the product b * s.
SameProduct(x, b, s) ==
  \A p \in Moduli :
    Residue(x, 1, p) = (Residue(b, 1, p) * Residue(s, 1, p)) % p

BitLen8(v) == CHOOSE n \in 0 .. 8 : v < 2 ^ n /\ (n = 0 \/ v >= 2 ^ (n - 1))

\* The number of significant bits of the limb number x, limbs 1 .. i.
RECURSIVE BitLen(_, _)
BitLen(x, i) ==
  IF i = 0 THEN 0
  ELSE IF x[i] # 0 THEN 8 * (i - 1) + BitLen8(x[i]) ELSE BitLen(x, i - 1)

\* b * s < 2^63 for certain: the bit lengths add up to at most 63.
FitsOffT(b, s) == BitLen(b, 4) + BitLen(s, 4) <= 63

Completed(w) ==
  ncalls[w] - (IF pc[w] = "io" \/ exitwhy[w] = "fail" THEN 1 ELSE 0)

C18_LocalCounter ==
  /\ [](\A w \in Threads : pc[w] \in {"idle", "open"} => ioc[w] = 0)
  /\ [](\A w \in Threads : ioc[w] = Completed(w))
  /\ [][\A w \in Threads :
          ioc'[w] # ioc[w]
            => /\ ioc'[w] = ioc[w] + 1
               /\ pc[w] = "io" /\ pc'[w] = "incc"
               /\ \E r \in {"full", "short"} : w_io(w, r)
               /\ \A v \in Threads \ {w} : pc'[v] = pc[v] /\ ioc'[v] = ioc[v]
               /\ mpc' = mpc]_vars

C18_Witness ==
  \E w, v \in Threads :
    /\ ioc[w] = 2 /\ pc[w] = "incc" /\ ncalls[w] = 2
    /\ ioc[v] = 1 /\ exitwhy[v] = "fail" /\ ncalls[v] = 2
====
